---- MODULE Spec2Model ----
(***************************************************************************)
(* Session binding, order ledger and table colouring of MENU-BACKEND.      *)
(*                                                                         *)
(* The state is the four tables the routes read and write (QRCodes,        *)
(* DiningSessions, Orders, OrderItems) plus, for every request being       *)
(* served, the handler's position and local variables.  One action models  *)
(* one SQL statement of a handler together with the JavaScript that runs   *)
(* up to the next `await client.query`: the handlers use a pooled client   *)
(* in autocommit mode, so each statement is its own transaction and other  *)
(* requests interleave between statements.  POST /api/orders is the only   *)
(* handler with BEGIN..COMMIT: its reads are separate steps (READ          *)
(* COMMITTED), its writes become visible together at COMMIT.               *)
(*                                                                         *)
(* Rows are selected by the WHERE clauses the statements carry.  The       *)
(* tenant setting made by withTenant is transaction-local (tenantCtx): in  *)
(* autocommit it is gone when the next statement runs, so no statement is  *)
(* narrowed by it.  The tables carry the columns the routes read and write *)
(* (DiningSessions.payment_status included).  After a scan's or an         *)
(* ensure-session's last write one more statement runs before the          *)
(* response (last_scan_at), so other requests interleave there too.        *)
(*                                                                         *)
(* Orders carry total_amount and actual_ready_time; the latter is written  *)
(* only by the trigger on updates of Orders.status, with NOW() read from   *)
(* the clock `now`.  An order body's optional fields (payment hints,       *)
(* totals, an item's quantity and price) are kept as sent, Undefined for a *)
(* field left out, and converted as POST /api/orders converts them.  The   *)
(* overview returns its rows with the columns it classified; `seen` is one *)
(* such row that a dashboard client kept from an earlier answer.           *)
(***************************************************************************)
EXTENDS Integers, Sequences, FiniteSets, TLC

\* ------------------------------------------------------------------ bounds
MaxSessions == 2
MaxOrders == 2
MaxClock == 2

\* --------------------------------------------------------------- constants
Null == 0
NoTenant == 0
NoLabel == "none"
Undefined == -1

Tenants == {1, 2}
Labels == {"T1", "T2"}
Procs == {"p1", "p2"}

PaymentStatuses == {"paid", "unpaid", "partially_paid"}
allowedStatuses == {"PLACED", "IN_PROGRESS", "READY", "COMPLETED", "DELAYED"}
itemStatuses == {"QUEUED", "IN_PROGRESS", "COMPLETED"}
Modes == {"eat_later", "pay_first"}

VARIABLES
    qrcodes,    \* QRCodes rows, qr_code_id = index
    sessions,   \* DiningSessions rows, session_id = index
    orders,     \* Orders rows, order_id = index
    items,      \* OrderItems rows, order_item_id = index
    pc,         \* per request slot: the statement the handler runs next
    req,        \* per request slot: the request being served
    loc,        \* per request slot: the handler's local variables
    resp,       \* the response sent last, by any handler
    tenantCtx,  \* per request slot: app.current_tenant of its pooled client
    now,        \* the database clock, the value NOW() yields
    seen,       \* one overview row a dashboard client received earlier and kept
    env         \* the process environment: is there a pool, is ALLOW_DB_MOCK 'true'

vars == <<qrcodes, sessions, orders, items, pc, req, loc, resp, tenantCtx, now, seen, env>>
db == <<qrcodes, sessions, orders, items>>

\* ------------------------------------------------------------------- rows
QrRow(b, t) == [business_id |-> b, table_number |-> t, current_session_id |-> Null]

NewSession(b, q) ==
    [business_id |-> b, qr_code_id |-> q, status |-> "active", payment_status |-> "unpaid",
     end_time |-> Null]

\* FUNCTION set_order_estimated_ready_time() of TRIGGER
\* trg_set_order_estimated_ready_time BEFORE INSERT ON Orders:
\*  IF NEW.estimated_ready_time IS NULL THEN NEW.estimated_ready_time =
\*    NEW.placed_at + (NEW.customer_prep_time_minutes || ' minutes')::interval
\* (NULL minutes give a NULL sum)
set_order_estimated_ready_time(new) ==
    IF new.estimated_ready_time = Null /\ new.customer_prep_time_minutes # Null
    THEN [new EXCEPT !.estimated_ready_time = new.placed_at + new.customer_prep_time_minutes]
    ELSE new

\* the timing columns of a row that carries none
NoTiming == [placed_at |-> Null, customer_prep_time_minutes |-> Null, estimated_ready_time |-> Null]

\* the timing columns an INSERT INTO Orders leaves: placed_at is NOW()
\* (CURRENT_TIMESTAMP by default), prep is the value given for
\* customer_prep_time_minutes (Null: the column is not in the INSERT).
\* No handler reads these columns; a specification that does not observe
\* them (timed = FALSE) keeps them out of its rows.
OrderTiming(timed, prep) ==
    IF timed
    THEN set_order_estimated_ready_time(
            [placed_at |-> now, customer_prep_time_minutes |-> prep, estimated_ready_time |-> Null])
    ELSE NoTiming

\* the row an INSERT INTO Orders leaves
NewOrder(b, s, pay, total, timing) ==
    [business_id |-> b, dining_session_id |-> s, status |-> "PLACED", payment_status |-> pay,
     total_amount |-> total, actual_ready_time |-> Null, timing |-> timing]

NewItem(o, qty, price) ==
    [order_id |-> o, item_status |-> "QUEUED", quantity |-> qty, price |-> price]

QrIds == DOMAIN qrcodes
SessionIds == DOMAIN sessions
OrderIds == DOMAIN orders
ItemIds == DOMAIN items

\* SELECT ... FROM QRCodes WHERE business_id=$1 AND table_number=$2
QrByLabel(b, t) ==
    {q \in QrIds : qrcodes[q].business_id = b /\ qrcodes[q].table_number = t}

\* SELECT ... FROM QRCodes WHERE qr_code_id=$1 AND business_id=$2
QrById(b, id) == {q \in QrIds : q = id /\ qrcodes[q].business_id = b}

Min(S) == CHOOSE x \in S : \A y \in S : x <= y
Max(S) == CHOOSE x \in S : \A y \in S : x >= y

LinkSessionEverywhere(q, s) ==
    [x \in DOMAIN qrcodes |-> [qrcodes[x] EXCEPT !.current_session_id = s]]

\* UPDATE QRCodes SET current_session_id=$1 WHERE qr_code_id=$2
LinkSession(q, s) == [qrcodes EXCEPT ![q].current_session_id = s]

\* ---------------------------------------------------------------- requests
\* the optional fields of an order's body; Undefined marks a field left out
NoOpts ==
    [rawPayNow |-> FALSE, payment_status |-> "", paymentMethod |-> "",
     paymentInfo |-> [method |-> "", amount |-> Undefined],
     totalAmount |-> Undefined, quantity |-> Undefined, price |-> Undefined]

NoReq ==
    [kind |-> "none", tenant |-> NoTenant, table |-> NoLabel, qr |-> Null, sid |-> Null,
     pay |-> FALSE, n |-> 0, opts |-> NoOpts, bad |-> FALSE, prep |-> Undefined,
     timed |-> FALSE, fail |-> "none"]

NoLoc ==
    [qr |-> Null, cur |-> Null, sid |-> Null, oid |-> Null, spay |-> "unpaid",
     reused |-> FALSE, tx |-> "none"]

NoResp ==
    [tenant |-> NoTenant, op |-> "none", code |-> 0, sid |-> Null, qr |-> Null,
     reused |-> FALSE, mode |-> "none", out |-> {}, failed |-> FALSE, mock |-> FALSE, colorHint |-> "none",
     message |-> "none", calls |-> <<>>]

\* no overview row: what a client holds before it has kept one
NoRow ==
    [qr_code_id |-> Null, session_id |-> Null, session_status |-> "null",
     orders_count |-> 0, unpaid_exists |-> FALSE, any_ready_order |-> FALSE,
     any_item_completed |-> FALSE, any_paid_order |-> FALSE, all_paid |-> FALSE,
     mode_applied |-> "none", color |-> "none", reason |-> "none"]

\* the response to a request of tenant b
Reply(b, op, code, sid, q, reused) ==
    [tenant |-> b, op |-> op, code |-> code, sid |-> sid, qr |-> q,
     reused |-> reused, mode |-> "none", out |-> {}, failed |-> FALSE, mock |-> FALSE, colorHint |-> "none",
     message |-> "none", calls |-> <<>>]

\* set_config('app.current_tenant', value, true): the setting lasts until the
\* end of the transaction that made it; in autocommit that is the statement.
SetConfigLocal(value, inTransaction) == IF inTransaction THEN value ELSE NoTenant

\* async function withTenant(client, businessId)
withTenant(p, businessId) ==
    tenantCtx' = [tenantCtx EXCEPT ![p] =
                    IF businessId = NoTenant THEN @ ELSE SetConfigLocal(businessId, FALSE)]

InFlight == {p \in Procs : pc[p] # "idle"}

\* requests that may still insert a DiningSessions / an Orders row
SessionCreators == {p \in InFlight : req[p].kind \in {"scan", "ensure", "start", "checkout", "order"}}
OrderCreators == {p \in InFlight : req[p].kind \in {"checkout", "order"}}
RoomForSession == Len(sessions) + Cardinality(SessionCreators) < MaxSessions
RoomForOrder == Len(orders) + Cardinality(OrderCreators) < MaxOrders

\* the handler sends its response and releases the client
Finish(p, r) ==
    /\ pc' = [pc EXCEPT ![p] = "idle"]
    /\ req' = [req EXCEPT ![p] = NoReq]
    /\ loc' = [loc EXCEPT ![p] = NoLoc]
    /\ resp' = r

\* the handler awaits its next statement
Goto(p, label, r, l) ==
    /\ pc' = [pc EXCEPT ![p] = label]
    /\ req' = [req EXCEPT ![p] = r]
    /\ loc' = [loc EXCEPT ![p] = l]
    /\ UNCHANGED resp

\* a request arrives: pool.connect(), withTenant, then the first statement
Accept(p, r) ==
    /\ pc[p] = "idle"
    /\ withTenant(p, r.tenant)
    /\ UNCHANGED <<now, seen, env>>

Running(p, label) ==
    /\ pc[p] = label
    /\ UNCHANGED <<tenantCtx, now, seen, env>>

\* ------------------------------------------------------------------- Init
\* QR codes are provisioned per table before diners arrive; table T2 of
\* tenant 2 is created on first use by label.
Init ==
    /\ qrcodes = <<QrRow(1, "T1"), QrRow(1, "T2"), QrRow(2, "T1")>>
    /\ sessions = <<>>
    /\ orders = <<>>
    /\ items = <<>>
    /\ pc = [p \in Procs |-> "idle"]
    /\ req = [p \in Procs |-> NoReq]
    /\ loc = [p \in Procs |-> NoLoc]
    /\ resp = NoResp
    /\ tenantCtx = [p \in Procs |-> NoTenant]
    /\ now = 1
    /\ seen = NoRow
    /\ env = [pool |-> TRUE, allowMock |-> FALSE]

\* ------------------------------------------- scan and ensure-session (qr.js)
\* SELECT ... FROM QRCodes WHERE qr_code_id=$1 AND business_id=$2
SelectQrById(p, r) ==
    LET hit == QrById(r.tenant, r.qr) IN
    IF hit = {}
    THEN /\ Finish(p, Reply(r.tenant, r.kind, 404, Null, Null, FALSE))
         /\ UNCHANGED db
    ELSE LET q == CHOOSE x \in hit : TRUE IN
         /\ Goto(p, "eas_check", r, [NoLoc EXCEPT !.qr = q, !.cur = qrcodes[q].current_session_id])
         /\ UNCHANGED db

\* INSERT INTO QRCodes ... ON CONFLICT (business_id, table_number) DO UPDATE ... RETURNING
UpsertQr(p, r, next) ==
    LET hit == QrByLabel(r.tenant, r.table)
        q == IF hit = {} THEN Len(qrcodes) + 1 ELSE CHOOSE x \in hit : TRUE
        rows == IF hit = {} THEN Append(qrcodes, QrRow(r.tenant, r.table)) ELSE qrcodes
    IN /\ qrcodes' = rows
       /\ Goto(p, next, r, [NoLoc EXCEPT !.qr = q, !.cur = rows[q].current_session_id])
       /\ UNCHANGED <<sessions, orders, items>>

\* GET /qr/:qrId
Scan(p, S) ==
    \E b \in S.tenants, id \in S.qrs :
        LET r == [NoReq EXCEPT !.kind = "scan", !.tenant = b, !.qr = id] IN
        /\ RoomForSession
        /\ Accept(p, r)
        /\ SelectQrById(p, r)

\* POST /api/qr/ensure-session { businessId, qrCodeId | tableNumber }
EnsureSession(p, S) ==
    \/ \E b \in S.tenants, id \in S.qrs :
        LET r == [NoReq EXCEPT !.kind = "ensure", !.tenant = b, !.qr = id] IN
        /\ RoomForSession
        /\ Accept(p, r)
        /\ SelectQrById(p, r)
    \/ \E b \in S.tenants, t \in S.labels :
        LET r == [NoReq EXCEPT !.kind = "ensure", !.tenant = b, !.table = t] IN
        /\ RoomForSession
        /\ Accept(p, r)
        /\ UpsertQr(p, r, "eas_check")

IsReusableWrongCase(s) == s \in SessionIds /\ sessions[s].status = "ACTIVE"

IsReusableAnyStatus(s) == s \in SessionIds

\* existing.rows[0] && existing.rows[0].status === 'active'
IsReusable(s) == s \in SessionIds /\ sessions[s].status = "active"

\* async function ensureActiveSession(client, businessId, qrRow), served with
\* no other request in between: the session answered and the rows left behind
ensureActiveSession(b, q) ==
    LET cur == qrcodes[q].current_session_id
        sid == Len(sessions) + 1
    IN IF cur # Null /\ IsReusable(cur)
       THEN [sid |-> cur, reused |-> TRUE, sessions |-> sessions, qrcodes |-> qrcodes]
       ELSE [sid |-> sid, reused |-> FALSE,
             sessions |-> Append(sessions, NewSession(b, q)),
             qrcodes |-> LinkSession(q, sid)]

\* ensureActiveSession: if (current_session_id) SELECT session_id, status ...
EasCheck(p) ==
    /\ Running(p, "eas_check")
    /\ IF loc[p].cur # Null /\ IsReusable(loc[p].cur)
       THEN Goto(p, "eas_touch", req[p], [loc[p] EXCEPT !.sid = loc[p].cur, !.reused = TRUE])
       ELSE Goto(p, "eas_insert", req[p], loc[p])
    /\ UNCHANGED db

\* INSERT INTO DiningSessions (business_id, qr_code_id, status) VALUES ($1,$2,'active')
EasInsert(p) ==
    /\ Running(p, "eas_insert")
    /\ sessions' = Append(sessions, NewSession(req[p].tenant, loc[p].qr))
    /\ Goto(p, "eas_link", req[p], [loc[p] EXCEPT !.sid = Len(sessions) + 1])
    /\ UNCHANGED <<qrcodes, orders, items>>

\* UPDATE QRCodes SET current_session_id=$1 WHERE qr_code_id=$2
EasLink(p) ==
    /\ Running(p, "eas_link")
    /\ qrcodes' = LinkSession(loc[p].qr, loc[p].sid)
    /\ Goto(p, "eas_touch", req[p], loc[p])
    /\ UNCHANGED <<sessions, orders, items>>

\* UPDATE QRCodes SET last_scan_at=NOW() WHERE qr_code_id=$1, then the response
\* (last_scan_at is no column of the model; the scan's metrics SELECT that
\* follows only feeds a log line)
EasTouch(p) ==
    /\ Running(p, "eas_touch")
    /\ Finish(p, Reply(req[p].tenant, req[p].kind, 200, loc[p].sid, loc[p].qr, loc[p].reused))
    /\ UNCHANGED db

\* ------------------------------------------------- sessions.js: start, close
\* POST /api/sessions/start { businessId, tableNumber }
StartSession(p, S) ==
    \E b \in S.tenants, t \in S.labels :
        LET r == [NoReq EXCEPT !.kind = "start", !.tenant = b, !.table = t] IN
        /\ RoomForSession
        /\ Accept(p, r)
        /\ UpsertQr(p, r, "start_check")

\* 2. verify the linked session is still active
StartCheck(p) ==
    /\ Running(p, "start_check")
    /\ IF loc[p].cur # Null /\ IsReusable(loc[p].cur)
       THEN Finish(p, Reply(req[p].tenant, "start", 200, loc[p].cur, loc[p].qr, TRUE))
       ELSE Goto(p, "start_active", req[p], loc[p])
    /\ UNCHANGED db

ActiveSessionsOfNone(b, q) == {}

\* WHERE ds.business_id=$1 AND ds.qr_code_id=$2 AND ds.status='active'
ActiveSessionsOf(b, q) ==
    {s \in SessionIds : /\ sessions[s].business_id = b
                        /\ sessions[s].qr_code_id = q
                        /\ sessions[s].status = "active"}

\* 3. another active session for this table: ORDER BY start_time DESC LIMIT 1
StartActive(p) ==
    /\ Running(p, "start_active")
    /\ LET act == ActiveSessionsOf(req[p].tenant, loc[p].qr) IN
        IF act # {}
        THEN IF loc[p].cur = Null \/ loc[p].cur # Max(act)
             THEN Goto(p, "start_relink", req[p], [loc[p] EXCEPT !.sid = Max(act)])
             ELSE Finish(p, Reply(req[p].tenant, "start", 200, Max(act), loc[p].qr, TRUE))
        ELSE Goto(p, "start_insert", req[p], loc[p])
    /\ UNCHANGED db

StartRelink(p) ==
    /\ Running(p, "start_relink")
    /\ qrcodes' = LinkSession(loc[p].qr, loc[p].sid)
    /\ Finish(p, Reply(req[p].tenant, "start", 200, loc[p].sid, loc[p].qr, TRUE))
    /\ UNCHANGED <<sessions, orders, items>>

\* 4. create new dining session
StartInsert(p) ==
    /\ Running(p, "start_insert")
    /\ sessions' = Append(sessions, NewSession(req[p].tenant, loc[p].qr))
    /\ Goto(p, "start_link", req[p], [loc[p] EXCEPT !.sid = Len(sessions) + 1])
    /\ UNCHANGED <<qrcodes, orders, items>>

StartLink(p) ==
    /\ Running(p, "start_link")
    /\ qrcodes' = LinkSession(loc[p].qr, loc[p].sid)
    /\ Finish(p, Reply(req[p].tenant, "start", 200, loc[p].sid, loc[p].qr, FALSE))
    /\ UNCHANGED <<sessions, orders, items>>

\* POST /api/sessions/start, steps 2 to 4 served with no other request in
\* between: the session answered and the rows left behind
startOrReuse(b, q) ==
    LET cur == qrcodes[q].current_session_id
        act == ActiveSessionsOf(b, q)
        sid == Len(sessions) + 1
    IN IF cur # Null /\ IsReusable(cur)
       THEN [sid |-> cur, reused |-> TRUE, sessions |-> sessions, qrcodes |-> qrcodes]
       ELSE IF act # {}
       THEN [sid |-> Max(act), reused |-> TRUE, sessions |-> sessions,
             qrcodes |-> IF cur = Null \/ cur # Max(act)
                         THEN LinkSession(q, Max(act)) ELSE qrcodes]
       ELSE [sid |-> sid, reused |-> FALSE,
             sessions |-> Append(sessions, NewSession(b, q)),
             qrcodes |-> LinkSession(q, sid)]

\* UPDATE DiningSessions SET status='completed', end_time=NOW()
\*  WHERE session_id=$1 AND business_id=$2
CloseStatus(b, s) ==
    [x \in SessionIds |->
        IF x = s /\ sessions[x].business_id = b
        THEN [sessions[x] EXCEPT !.status = "completed", !.end_time = now]
        ELSE sessions[x]]

\* POST /api/sessions/close { businessId, sessionId, tableNumber? }
CloseSession(p, S) ==
    \E b \in S.tenants, s \in 1..MaxSessions, t \in S.closeLabels :
        LET r == [NoReq EXCEPT !.kind = "close", !.tenant = b, !.sid = s, !.table = t] IN
        /\ Accept(p, r)
        /\ sessions' = CloseStatus(b, s)
        /\ Goto(p, "close_clear", r, NoLoc)
        /\ UNCHANGED <<qrcodes, orders, items>>

CloseClearsByTable(b, t, s) ==
    IF t # NoLabel
    THEN {q \in QrIds : qrcodes[q].business_id = b /\ qrcodes[q].table_number = t}
    ELSE {q \in QrIds : qrcodes[q].current_session_id = s}

\* the rows whose pointer the close sets to NULL
\*  tableNumber given: WHERE business_id=$1 AND table_number=$2 AND current_session_id=$3
\*  otherwise:         WHERE current_session_id=$1
CloseClears(b, t, s) ==
    IF t # NoLabel
    THEN {q \in QrIds : /\ qrcodes[q].business_id = b
                        /\ qrcodes[q].table_number = t
                        /\ qrcodes[q].current_session_id = s}
    ELSE {q \in QrIds : qrcodes[q].current_session_id = s}

CloseClearStrict(p) ==
    /\ Running(p, "close_clear")
    /\ LET hit == CloseClears(req[p].tenant, req[p].table, req[p].sid) IN
        /\ qrcodes' = [q \in QrIds |->
                          IF q \in hit THEN [qrcodes[q] EXCEPT !.current_session_id = Null]
                          ELSE qrcodes[q]]
        /\ Finish(p, Reply(req[p].tenant, "close", IF hit = {} THEN 404 ELSE 200,
                           req[p].sid, Null, FALSE))
    /\ UNCHANGED <<sessions, orders, items>>

\* the pointer clear, then res.json({ closed: true, sessionId })
CloseClear(p) ==
    /\ Running(p, "close_clear")
    /\ LET hit == CloseClears(req[p].tenant, req[p].table, req[p].sid) IN
        qrcodes' = [q \in QrIds |->
                      IF q \in hit THEN [qrcodes[q] EXCEPT !.current_session_id = Null]
                      ELSE qrcodes[q]]
    /\ Finish(p, Reply(req[p].tenant, "close", 200, req[p].sid, Null, FALSE))
    /\ UNCHANGED <<sessions, orders, items>>

\* -------------------------------------------------------------- checkout.js
\* SELECT session_id FROM DiningSessions
\*  WHERE session_id=$1 AND business_id=$2 AND status='active'
ProvidedSessionValid(b, s) ==
    /\ s \in SessionIds
    /\ sessions[s].business_id = b
    /\ sessions[s].status = "active"

\* SELECT qr_code_id ... WHERE business_id=$1 AND table_number=$2 LIMIT 1
CoSelectQr(p, r) ==
    LET hit == QrByLabel(r.tenant, r.table) IN
    /\ IF hit # {}
       THEN Goto(p, "co_cur", r, [NoLoc EXCEPT !.qr = CHOOSE x \in hit : TRUE])
       ELSE Goto(p, "co_qrins", r, NoLoc)
    /\ UNCHANGED db

\* No table specified: SELECT qr_code_id ... WHERE business_id=$1 ORDER BY qr_code_id ASC LIMIT 1
CoSelectAnyQr(p, r) ==
    LET mine == {q \in QrIds : qrcodes[q].business_id = r.tenant} IN
    /\ IF mine # {}
       THEN Goto(p, "co_sins", r, [NoLoc EXCEPT !.qr = Min(mine)])
       ELSE Goto(p, "co_genqr", r, NoLoc)
    /\ UNCHANGED db

\* the statement that follows a missing or rejected diningSessionId
CoResolve(p, r) ==
    IF r.table # NoLabel THEN CoSelectQr(p, r) ELSE CoSelectAnyQr(p, r)

\* if (!pool) return res.json({ success: true, orderId: 'mock-1', ... })
CheckoutWithoutPool(b) ==
    [Reply(b, "checkout", 200, Null, Null, FALSE) EXCEPT !.mock = TRUE]

\* const { ..., customerPrepTimeMinutes = 15, ... } = req.body || {}
customerPrepTimeMinutes(x) == IF x = Undefined THEN 15 ELSE x

\* POST /api/checkout { businessId, diningSessionId?, customerPrepTimeMinutes?,
\*                      tableNumber?, payFirst?, items }
Checkout(p, S) ==
    \E b \in S.tenants, s \in S.sids, t \in S.coLabels, pay \in S.pays, n \in S.counts,
       bad \in S.bad, prep \in S.preps :
        LET r == [NoReq EXCEPT !.kind = "checkout", !.tenant = b, !.sid = s, !.table = t,
                               !.pay = pay, !.n = n, !.bad = bad, !.prep = prep,
                               !.timed = S.timed] IN
        /\ RoomForSession
        /\ RoomForOrder
        /\ Accept(p, r)
        /\ IF ~env.pool
           THEN /\ Finish(p, CheckoutWithoutPool(b))
                /\ UNCHANGED db
           ELSE IF s # Null
           THEN /\ IF ProvidedSessionValid(b, s)
                   THEN Goto(p, "co_order", r, [NoLoc EXCEPT !.sid = s])
                   ELSE Goto(p, "co_resolve", r, NoLoc)
                /\ UNCHANGED db
           ELSE CoResolve(p, r)

CoAfterInvalid(p) ==
    /\ Running(p, "co_resolve")
    /\ CoResolve(p, req[p])

\* the INSERT on a table without UNIQUE (business_id, table_number)
CoInsertQrUnconstrained(p) ==
    /\ Running(p, "co_qrins")
    /\ qrcodes' = Append(qrcodes, QrRow(req[p].tenant, req[p].table))
    /\ Goto(p, "co_cur", req[p], [loc[p] EXCEPT !.qr = Len(qrcodes) + 1])
    /\ UNCHANGED <<sessions, orders, items>>

\* INSERT INTO QRCodes (business_id, table_number) VALUES ($1,$2); 23505 on conflict
CoInsertQr(p) ==
    /\ Running(p, "co_qrins")
    /\ IF QrByLabel(req[p].tenant, req[p].table) # {}
       THEN /\ Goto(p, "co_qragain", req[p], loc[p])
            /\ UNCHANGED db
       ELSE /\ qrcodes' = Append(qrcodes, QrRow(req[p].tenant, req[p].table))
            /\ Goto(p, "co_cur", req[p], [loc[p] EXCEPT !.qr = Len(qrcodes) + 1])
            /\ UNCHANGED <<sessions, orders, items>>

\* unique violation race: SELECT again
CoSelectQrAgain(p) ==
    /\ Running(p, "co_qragain")
    /\ LET hit == QrByLabel(req[p].tenant, req[p].table) IN
        IF hit # {}
        THEN Goto(p, "co_cur", req[p], [loc[p] EXCEPT !.qr = CHOOSE x \in hit : TRUE])
        ELSE Finish(p, Reply(req[p].tenant, "checkout", 500, Null, Null, FALSE))
    /\ UNCHANGED db

\* INSERT INTO QRCodes (business_id, table_number) VALUES ($1,'GEN')
CoInsertGenericQr(p) ==
    /\ Running(p, "co_genqr")
    /\ IF QrByLabel(req[p].tenant, "GEN") # {}
       THEN /\ Finish(p, Reply(req[p].tenant, "checkout", 500, Null, Null, FALSE))
            /\ UNCHANGED db
       ELSE /\ qrcodes' = Append(qrcodes, QrRow(req[p].tenant, "GEN"))
            /\ Goto(p, "co_sins", req[p], [loc[p] EXCEPT !.qr = Len(qrcodes) + 1])
            /\ UNCHANGED <<sessions, orders, items>>

\* SELECT current_session_id FROM QRCodes WHERE qr_code_id=$1
CoSelectCurrent(p) ==
    /\ Running(p, "co_cur")
    /\ LET cur == qrcodes[loc[p].qr].current_session_id IN
        IF cur # Null
        THEN Goto(p, "co_act", req[p], [loc[p] EXCEPT !.cur = cur])
        ELSE Goto(p, "co_sins", req[p], loc[p])
    /\ UNCHANGED db

\* SELECT session_id FROM DiningSessions WHERE session_id=$1 AND status='active'
CoSelectActive(p) ==
    /\ Running(p, "co_act")
    /\ IF IsReusable(loc[p].cur)
       THEN Goto(p, "co_order", req[p], [loc[p] EXCEPT !.sid = loc[p].cur])
       ELSE Goto(p, "co_sins", req[p], loc[p])
    /\ UNCHANGED db

\* INSERT INTO DiningSessions (business_id, qr_code_id, status) VALUES ($1,$2,'active')
CoInsertSession(p) ==
    /\ Running(p, "co_sins")
    /\ sessions' = Append(sessions, NewSession(req[p].tenant, loc[p].qr))
    /\ Goto(p, "co_link", req[p], [loc[p] EXCEPT !.sid = Len(sessions) + 1])
    /\ UNCHANGED <<qrcodes, orders, items>>

\* UPDATE QRCodes SET current_session_id=$1 WHERE qr_code_id=$2
CoLink(p) ==
    /\ Running(p, "co_link")
    /\ qrcodes' = LinkSession(loc[p].qr, loc[p].sid)
    /\ Goto(p, "co_order", req[p], loc[p])
    /\ UNCHANGED <<sessions, orders, items>>

\* INSERT INTO Orders (business_id, dining_session_id, status, ..., payment_status)
\*  VALUES ($1,$2,'PLACED',$3,$4)
CoInsertOrder(p) ==
    /\ Running(p, "co_order")
    /\ orders' = Append(orders, NewOrder(req[p].tenant, loc[p].sid,
                                         IF req[p].pay THEN "paid" ELSE "unpaid", Null,
                                         OrderTiming(req[p].timed,
                                                     customerPrepTimeMinutes(req[p].prep))))
    /\ IF req[p].n > 0
       THEN Goto(p, "co_item", req[p], [loc[p] EXCEPT !.oid = Len(orders) + 1])
       ELSE Finish(p, Reply(req[p].tenant, "checkout", 200, loc[p].sid, Null, FALSE))
    /\ UNCHANGED <<qrcodes, sessions, items>>

\* try { INSERT INTO OrderItems (order_id, menu_item_id, item_status, business_id)
\*        VALUES ($1,$2,'QUEUED',$3) }
\* catch(itemErr) { debug.push({ step:'item-insert-error', ... }) }
\* req.bad: the statement raises an error (the item cannot be inserted)
CoInsertItem(p) ==
    /\ Running(p, "co_item")
    /\ items' = IF req[p].bad THEN items ELSE Append(items, NewItem(loc[p].oid, Null, Null))
    /\ Finish(p, [Reply(req[p].tenant, "checkout", 200, loc[p].sid, Null, FALSE) EXCEPT
                    !.failed = req[p].bad])
    /\ UNCHANGED <<qrcodes, sessions, orders>>

\* ---------------------------------------------------- orders.js POST /api/orders
\* (s || '').toString().toLowerCase(), on the strings the requests carry
toLowerCase(s) ==
    CASE s = "Online" -> "online"
      [] s = "PAID" -> "paid"
      [] s = "PLACED" -> "placed"
      [] OTHER -> s

\* s.trim(), on the strings the requests carry
trim(s) == IF s = " PAID " THEN "PAID" ELSE s

\* const pm = (paymentMethod || payment_method || paymentInfo?.method || '')
\*             .toString().toLowerCase()
pm(x) == toLowerCase(IF x.paymentMethod # "" THEN x.paymentMethod ELSE x.paymentInfo.method)

\* const explicitPaid = (payment_status||'').toString().trim().toLowerCase() === 'paid'
explicitPaid(x) == toLowerCase(trim(x.payment_status)) = "paid"

\* const payNow = !!(rawPayNow || pay_first || explicitPaid || pm === 'online' || pm === 'paid')
payNow(x) == x.rawPayNow \/ explicitPaid(x) \/ pm(x) = "online" \/ pm(x) = "paid"

\* let derivedTotal = totalAmount;
\* if ((derivedTotal === undefined || null) && paymentInfo && paymentInfo.amount != null)
\*   derivedTotal = Number(paymentInfo.amount) || 0
derivedTotal(x) ==
    IF x.totalAmount = Undefined /\ x.paymentInfo.amount # Undefined
    THEN x.paymentInfo.amount
    ELSE x.totalAmount

\* COALESCE($4, 0)
Coalesce(v, d) == IF v = Undefined THEN d ELSE v

\* const qty = Number(it.quantity || it.qty || 1)
ItemQty(x) == IF x.quantity = Undefined \/ x.quantity = 0 THEN 1 ELSE x.quantity

\* const price = Number(it.price || it.unitPrice || 0)
ItemPrice(x) == IF x.price = Undefined THEN 0 ELSE x.price

clientCallsReleaseInTry(path) ==
    LET tryBlock == CASE path = "table-not-found" -> <<"BEGIN", "ROLLBACK">>
                      [] path = "created" -> <<"BEGIN", "COMMIT", "release">>
                      [] path = "error" -> <<"BEGIN">>
        catchBlock == IF path = "error" THEN <<"ROLLBACK">> ELSE <<>>
    IN <<"connect">> \o tryBlock \o catchBlock

\* the calls the handler makes on its pooled client: pool.connect(), the try
\* block up to its return or to the statement that throws, the catch block
\* when one threw, the finally block
clientCalls(path) ==
    LET tryBlock == CASE path = "table-not-found" -> <<"BEGIN", "ROLLBACK">>
                      [] path = "created" -> <<"BEGIN", "COMMIT">>
                      [] path = "error" -> <<"BEGIN">>
        catchBlock == IF path = "error" THEN <<"ROLLBACK">> ELSE <<>>
        finallyBlock == <<"release">>
    IN <<"connect">> \o tryBlock \o catchBlock \o finallyBlock

\* BEGIN; SELECT qr_code_id, current_session_id FROM QRCodes
\*  WHERE business_id=$1 AND table_number=$2 LIMIT 1
PlaceOrder(p, S) ==
    \E b \in S.tenants, t \in S.labels, pay \in S.pays, n \in S.counts, o \in S.opts,
       bad \in S.bad, prep \in S.preps, f \in S.fails :
        LET body == [o EXCEPT !.rawPayNow = pay]
            r == [NoReq EXCEPT !.kind = "order", !.tenant = b, !.table = t,
                               !.pay = payNow(body), !.n = n, !.opts = body, !.bad = bad,
                               !.prep = prep, !.timed = S.timed, !.fail = f]
            hit == QrByLabel(b, t)
        IN
        /\ RoomForSession
        /\ RoomForOrder
        /\ Accept(p, r)
        /\ IF ~env.pool
           THEN Finish(p, Reply(b, "order", 503, Null, Null, FALSE))
           ELSE IF hit = {}
           THEN Finish(p, [Reply(b, "order", 404, Null, Null, FALSE) EXCEPT
                             !.calls = clientCalls("table-not-found")])
           ELSE LET q == CHOOSE x \in hit : TRUE
                    cur == qrcodes[q].current_session_id
                IN Goto(p, IF cur # Null THEN "po_sess" ELSE "po_commit", r,
                        [NoLoc EXCEPT !.qr = q, !.cur = cur, !.sid = cur, !.tx = "open"])
        /\ UNCHANGED db

\* SELECT session_id, payment_status FROM DiningSessions WHERE session_id=$1 LIMIT 1
PoSelectSession(p) ==
    /\ Running(p, "po_sess")
    /\ IF loc[p].sid \in SessionIds
       THEN Goto(p, "po_commit", req[p],
                 [loc[p] EXCEPT !.spay = sessions[loc[p].sid].payment_status])
       ELSE Goto(p, "po_commit", req[p], [loc[p] EXCEPT !.sid = Null])
    /\ UNCHANGED db

\* const colorHint = order.payment_status === 'paid' || sessionPaymentStatus === 'paid'
\*   ? 'green' : (order.status && order.status.toLowerCase() === 'placed' ? 'yellow' : 'ash')
colorHint(order, sessionPaymentStatus) ==
    IF order.payment_status = "paid" \/ sessionPaymentStatus = "paid" THEN "green"
    ELSE IF toLowerCase(order.status) = "placed" THEN "yellow" ELSE "ash"

\* the statements of the transaction that write, in the order the handler
\* issues them
Statements == <<"session", "link", "pay", "order", "item">>

StatementNo(st) == CHOOSE k \in 1..Len(Statements) : Statements[k] = st

catchWithoutRollback(before, work) == work

\* } catch (e) { try { await client.query('ROLLBACK'); ... } catch(_) {} ...
\* the rows after the catch block: those before BEGIN, whatever the
\* statements that ran had written
catchRollback(before, work) == before

\* the writes of the transaction, visible at COMMIT:
\*  INSERT INTO DiningSessions + UPDATE QRCodes (when no session was found),
\*  UPDATE DiningSessions SET payment_status='paid' (payNow),
\*  INSERT INTO Orders (business_id, dining_session_id, status, placed_at,
\*   payment_status, total_amount): no customer_prep_time_minutes,
\*  INSERT INTO OrderItems
\* a statement that raises an error (req.fail; req.bad for the INSERT INTO
\* OrderItems) ends the try block: the handler's catch issues ROLLBACK and
\* answers 500 with the error's message
PoCommit(p) ==
    /\ Running(p, "po_commit")
    /\ LET create == loc[p].sid = Null
           sid == IF create THEN Len(sessions) + 1 ELSE loc[p].sid
           spay == IF create THEN "unpaid" ELSE loc[p].spay
           sessionPaymentStatus == IF req[p].pay THEN "paid" ELSE spay
           order == NewOrder(req[p].tenant, sid,
                             IF req[p].pay THEN "paid" ELSE "unpaid",
                             Coalesce(derivedTotal(req[p].opts), 0),
                             OrderTiming(req[p].timed, Null))
           issued == [session |-> create, link |-> create,
                      pay |-> req[p].pay /\ spay # "paid",
                      order |-> TRUE, item |-> req[p].n > 0]
           raising == IF req[p].bad THEN "item" ELSE req[p].fail
           thrown == raising # "none" /\ issued[raising]
           ran(st) == issued[st] /\ (thrown => StatementNo(st) < StatementNo(raising))
           s1 == IF ran("session")
                 THEN Append(sessions, NewSession(req[p].tenant, loc[p].qr))
                 ELSE sessions
           before == [qrcodes |-> qrcodes, sessions |-> sessions,
                      orders |-> orders, items |-> items]
           work == [qrcodes |-> IF ran("link") THEN LinkSession(loc[p].qr, sid) ELSE qrcodes,
                    sessions |-> IF ran("pay")
                                 THEN [s1 EXCEPT ![sid].payment_status = "paid"] ELSE s1,
                    orders |-> IF ran("order") THEN Append(orders, order) ELSE orders,
                    items |-> IF ran("item")
                              THEN Append(items, NewItem(Len(orders) + 1,
                                                         ItemQty(req[p].opts),
                                                         ItemPrice(req[p].opts)))
                              ELSE items]
           after == IF thrown THEN catchRollback(before, work) ELSE work
       IN
        /\ qrcodes' = after.qrcodes
        /\ sessions' = after.sessions
        /\ orders' = after.orders
        /\ items' = after.items
        /\ IF thrown
           THEN Finish(p, [Reply(req[p].tenant, "order", 500, Null, Null, FALSE) EXCEPT
                             !.message = raising, !.calls = clientCalls("error")])
           ELSE Finish(p, [Reply(req[p].tenant, "order", 201, sid, Null, ~create) EXCEPT
                             !.colorHint = colorHint(order, sessionPaymentStatus),
                             !.calls = clientCalls("created")])

\* ------------------------------------ orders_admin: payment, status, item status
\* PATCH /api/orders/:id/payment { businessId, status }
\*  UPDATE Orders SET payment_status=$1 WHERE order_id=$2
\* the handler with the test of the status against the enumeration left out
PatchPaymentUnchecked(o, st) ==
    IF o \notin OrderIds
    THEN [code |-> 404, rows |-> orders]
    ELSE [code |-> 200, rows |-> [orders EXCEPT ![o].payment_status = st]]

\* the UPDATE keyed by the order's session: WHERE dining_session_id = (that of $2)
PatchPaymentBySession(o, st) ==
    IF st \notin PaymentStatuses
    THEN [code |-> 400, rows |-> orders]
    ELSE IF o \notin OrderIds
    THEN [code |-> 404, rows |-> orders]
    ELSE [code |-> 200,
          rows |-> [x \in OrderIds |->
                      IF orders[x].dining_session_id = orders[o].dining_session_id
                      THEN [orders[x] EXCEPT !.payment_status = st]
                      ELSE orders[x]]]

\* the answer of PATCH /:id/payment and the Orders table it leaves:
\*  !['paid','unpaid','partially_paid'].includes(status) -> 400
\*  !upd.rowCount -> 404
PatchPayment(o, st) ==
    IF st \notin PaymentStatuses
    THEN [code |-> 400, rows |-> orders]
    ELSE IF o \notin OrderIds
    THEN [code |-> 404, rows |-> orders]
    ELSE [code |-> 200, rows |-> [orders EXCEPT ![o].payment_status = st]]

UpdatePaymentStatus(p, S) ==
    \E b \in S.tenants, o \in S.oids, st \in S.pstat :
        /\ Accept(p, [NoReq EXCEPT !.tenant = b])
        /\ orders' = PatchPayment(o, st).rows
        /\ Finish(p, Reply(b, "payment", PatchPayment(o, st).code, Null, Null, FALSE))
        /\ UNCHANGED <<qrcodes, sessions, items>>

\* the statement of set_order_actual_ready_time with the IS NULL test left out
StampsEveryTime(new) ==
    IF new.status \in {"READY", "COMPLETED"}
    THEN [new EXCEPT !.actual_ready_time = now]
    ELSE new

\* FUNCTION set_order_actual_ready_time():
\*  IF (NEW.status IN ('READY','COMPLETED')) AND NEW.actual_ready_time IS NULL
\*  THEN NEW.actual_ready_time = NOW(); END IF; RETURN NEW
set_order_actual_ready_time(new) ==
    IF new.status \in {"READY", "COMPLETED"} /\ new.actual_ready_time = Null
    THEN [new EXCEPT !.actual_ready_time = now]
    ELSE new

\* TRIGGER trg_set_order_actual_ready_time BEFORE UPDATE OF status ON Orders
\*  FOR EACH ROW WHEN (OLD.status IS DISTINCT FROM NEW.status)
trg_set_order_actual_ready_time(old, new) ==
    IF old.status # new.status THEN set_order_actual_ready_time(new) ELSE new

\* time passes: NOW() yields a later value
Tick ==
    /\ now < MaxClock
    /\ now' = now + 1
    /\ UNCHANGED <<qrcodes, sessions, orders, items, pc, req, loc, resp, tenantCtx, seen, env>>

PatchStatusForwardOnly(o, st) ==
    IF st \notin allowedStatuses
    THEN [code |-> 400, rows |-> orders]
    ELSE IF o \notin OrderIds
    THEN [code |-> 404, rows |-> orders]
    ELSE IF orders[o].status \in {"READY", "COMPLETED"} /\ st = "PLACED"
    THEN [code |-> 400, rows |-> orders]
    ELSE [code |-> 200,
          rows |-> [orders EXCEPT ![o] =
                      trg_set_order_actual_ready_time(@, [@ EXCEPT !.status = st])]]

\* PATCH /api/orders/:id/status { businessId, status }
\*  UPDATE Orders SET status=$1 WHERE order_id=$2
\* the answer of PATCH /:id/status and the Orders table it leaves:
\*  !allowedStatuses.includes(status) -> 400;  !upd.rowCount -> 404
PatchStatus(o, st) ==
    IF st \notin allowedStatuses
    THEN [code |-> 400, rows |-> orders]
    ELSE IF o \notin OrderIds
    THEN [code |-> 404, rows |-> orders]
    ELSE [code |-> 200,
          rows |-> [orders EXCEPT ![o] =
                      trg_set_order_actual_ready_time(@, [@ EXCEPT !.status = st])]]

UpdateOrderStatus(p, S) ==
    \E b \in S.tenants, o \in S.oids, st \in S.ostat :
        /\ Accept(p, [NoReq EXCEPT !.tenant = b])
        /\ orders' = PatchStatus(o, st).rows
        /\ Finish(p, Reply(b, "status", PatchStatus(o, st).code, Null, Null, FALSE))
        /\ UNCHANGED <<qrcodes, sessions, items>>

\* PATCH /api/orders/items/:id/status { businessId, status }
\*  UPDATE OrderItems SET item_status=$1 WHERE order_item_id=$2
\* the answer of PATCH /items/:id/status and the OrderItems table it leaves:
\*  !itemStatuses.includes(status) -> 400;  !upd.rowCount -> 404
PatchItemStatus(i, st) ==
    IF st \notin itemStatuses
    THEN [code |-> 400, rows |-> items]
    ELSE IF i \notin ItemIds
    THEN [code |-> 404, rows |-> items]
    ELSE [code |-> 200, rows |-> [items EXCEPT ![i].item_status = st]]

UpdateItemStatus(p, S) ==
    \E b \in S.tenants, i \in S.oids, st \in S.istat :
        /\ Accept(p, [NoReq EXCEPT !.tenant = b])
        /\ items' = PatchItemStatus(i, st).rows
        /\ Finish(p, Reply(b, "item", PatchItemStatus(i, st).code, Null, Null, FALSE))
        /\ UNCHANGED <<qrcodes, sessions, orders>>

\* ------------------------------------------------ mark-paid (local fallback)
MarkFirstOrderPaid(sid) ==
    [o \in OrderIds |->
        IF orders[o].dining_session_id = sid
           /\ \A x \in OrderIds : orders[x].dining_session_id = sid => o <= x
        THEN [orders[o] EXCEPT !.payment_status = "paid"]
        ELSE orders[o]]

\* UPDATE Orders SET payment_status='paid' WHERE dining_session_id=$1
MarkOrdersPaid(sid) ==
    [o \in OrderIds |->
        IF orders[o].dining_session_id = sid
        THEN [orders[o] EXCEPT !.payment_status = "paid"]
        ELSE orders[o]]

\* SELECT ds.session_id FROM QRCodes q LEFT JOIN DiningSessions ds
\*   ON q.current_session_id = ds.session_id
\*  WHERE q.business_id=$1 AND ($2 IS NULL OR q.table_number=$2)
\*    AND ($3 IS NULL OR q.qr_code_id=$3)
\*  ORDER BY ds.start_time DESC NULLS LAST LIMIT 1
MarkPaidResolve(b, t, id) ==
    LET rows == {q \in QrIds : /\ qrcodes[q].business_id = b
                               /\ (t = NoLabel \/ qrcodes[q].table_number = t)
                               /\ (id = Null \/ q = id)}
        sids == {qrcodes[q].current_session_id : q \in rows} \ {Null}
    IN IF sids = {} THEN Null ELSE Max(sids)

\* POST /api/mark-paid { businessId, tableNumber?, qrId?, sessionId? }
MarkPaid(p, S) ==
    \/ \E b \in S.tenants, s \in S.sids \ {Null} :
        /\ Accept(p, [NoReq EXCEPT !.tenant = b])
        /\ orders' = MarkOrdersPaid(s)
        /\ Finish(p, Reply(b, "markpaid", 200, s, Null, FALSE))
        /\ UNCHANGED <<qrcodes, sessions, items>>
    \/ \E b \in S.tenants, t \in S.labels :
        LET r == [NoReq EXCEPT !.kind = "markpaid", !.tenant = b, !.table = t]
            sid == MarkPaidResolve(b, t, Null)
        IN
        /\ Accept(p, r)
        /\ IF sid = Null
           THEN Finish(p, Reply(b, "markpaid", 404, Null, Null, FALSE))
           ELSE Goto(p, "mp_update", r, [NoLoc EXCEPT !.sid = sid])
        /\ UNCHANGED db

MpUpdate(p) ==
    /\ Running(p, "mp_update")
    /\ orders' = MarkOrdersPaid(loc[p].sid)
    /\ Finish(p, Reply(req[p].tenant, "markpaid", 200, loc[p].sid, Null, FALSE))
    /\ UNCHANGED <<qrcodes, sessions, items>>

\* ------------------------------------------- sessions.js: GET /overview
OrdersOf(s) == {o \in OrderIds : orders[o].dining_session_id = s}

\* the row the overview query yields for QR code q (LEFT JOIN on the pointer)
OverviewRow(q) ==
    LET sid == qrcodes[q].current_session_id
        ds == IF sid \in SessionIds THEN sid ELSE Null
        os == IF ds = Null THEN {} ELSE OrdersOf(ds)
    IN [qr_code_id |-> q,
        session_id |-> sid,
        session_status |-> IF ds = Null THEN "null" ELSE sessions[ds].status,
        orders_count |-> Cardinality(os),
        unpaid_exists |-> \E o \in os : orders[o].payment_status # "paid",
        any_ready_order |-> \E o \in os : orders[o].status \in {"READY", "COMPLETED"},
        any_item_completed |->
            \E i \in ItemIds : items[i].order_id \in os /\ items[i].item_status = "COMPLETED",
        any_paid_order |-> \E o \in os : orders[o].payment_status = "paid",
        all_paid |-> ~ \E o \in os : orders[o].payment_status # "paid"]

hasPointer(r) == r.session_id # Null

\* const hasActive = r.session_id && r.session_status === 'active'
hasActive(r) == r.session_id # Null /\ r.session_status = "active"

anyReadyOrder(r) == r.any_ready_order

anyItemCompleted(r) == r.any_item_completed

\* const anyReadyDish = r.any_ready_order || r.any_item_completed
anyReadyDish(r) == r.any_ready_order \/ r.any_item_completed

somePaid(r) == r.any_paid_order

everyOrderPaid(r) == r.all_paid

\* else if (r.any_paid_order)
anyPaidOrder(r) == r.any_paid_order

\* if (r.all_paid && r.orders_count > 0)
paymentCompleted(r) == r.all_paid /\ r.orders_count > 0

\* rows.map(r => { ... color, reason ... })
Classify(mode, r) ==
    IF mode = "pay_first"
       THEN IF hasActive(r)
            THEN IF anyReadyDish(r)
                 THEN [color |-> "green", reason |-> "customer eating (first dish ready)"]
                 ELSE IF anyPaidOrder(r)
                 THEN [color |-> "yellow", reason |-> "occupied & paid; preparing food"]
                 ELSE [color |-> "ash", reason |-> "no payment yet"]
            ELSE [color |-> "ash", reason |-> "no active session"]
       ELSE IF hasActive(r)
            THEN IF paymentCompleted(r)
                 THEN [color |-> "green", reason |-> "payment completed"]
                 ELSE [color |-> "yellow",
                       reason |-> IF r.orders_count > 0 THEN "ordering/eating in progress"
                                  ELSE "session active"]
            ELSE [color |-> "ash", reason |-> "no active session"]

\* return { qr_code_id: r.qr_code_id, ..., mode_applied: mode, color, reason }
TableRow(mode, r) ==
    [qr_code_id |-> r.qr_code_id, session_id |-> r.session_id,
     session_status |-> r.session_status, orders_count |-> r.orders_count,
     unpaid_exists |-> r.unpaid_exists, any_ready_order |-> r.any_ready_order,
     any_item_completed |-> r.any_item_completed, any_paid_order |-> r.any_paid_order,
     all_paid |-> r.all_paid, mode_applied |-> mode,
     color |-> Classify(mode, r).color, reason |-> Classify(mode, r).reason]

\* res.json({ tables, mode }): one row per QR code of the tenant
Overview(b, mode) ==
    {TableRow(mode, OverviewRow(q)) : q \in {x \in QrIds : qrcodes[x].business_id = b}}

\* GET /api/sessions/overview?businessId=..&mode=pay_first|eat_later
GetTableOverview(p, S) ==
    \E b \in S.tenants, mode \in Modes :
        /\ Accept(p, [NoReq EXCEPT !.tenant = b])
        /\ Finish(p, [Reply(b, "overview", 200, Null, Null, FALSE) EXCEPT
                        !.mode = mode, !.out = Overview(b, mode)])
        /\ UNCHANGED db

\* ------------------------------------------- orders.js: GET /by-table
\* the base row of QR code q joined with the aggregates of its session's orders
ByTableRow(q) ==
    LET sid == qrcodes[q].current_session_id
        ds == IF sid \in SessionIds THEN sid ELSE Null
        os == IF ds = Null THEN {} ELSE OrdersOf(ds)
    IN [qr_code_id |-> q,
        session_id |-> ds,
        session_payment_status |-> IF ds = Null THEN "" ELSE sessions[ds].payment_status,
        orders_count |-> Cardinality(os),
        unpaid_count |-> Cardinality({o \in os : orders[o].payment_status # "paid"}),
        paid_count |-> Cardinality({o \in os : orders[o].payment_status = "paid"}),
        all_paid |-> os # {} /\ \A o \in os : orders[o].payment_status = "paid"]

byTableSessionPaidFirst(r) ==
    IF r.session_id = Null THEN "ash"
    ELSE IF r.session_payment_status = "paid" THEN "green"
    ELSE IF r.orders_count > 0 /\ r.unpaid_count = 0 /\ r.all_paid THEN "green"
    ELSE "yellow"

\* let color = 'ash'; if (r.session_id) { if (ordersCount === 0) ... else ... }
byTableColor(r) ==
    LET unpaidExists == r.unpaid_count > 0
        sessionPaid == r.session_payment_status = "paid"
    IN IF r.session_id = Null THEN "ash"
       ELSE IF r.orders_count = 0
            THEN IF sessionPaid THEN "green" ELSE "yellow"
            ELSE IF unpaidExists THEN "yellow"
                 ELSE IF r.all_paid \/ sessionPaid THEN "green"
                 ELSE "yellow"

\* the dashboard client keeps one row of the overview it received last
KeepRow ==
    /\ resp.op = "overview"
    /\ \E v \in resp.out : seen' = v
    /\ UNCHANGED <<qrcodes, sessions, orders, items, pc, req, loc, resp, tenantCtx, now, env>>

\* the process is started anew with another environment: DATABASE_URL set or
\* not (db.js: pool), ALLOW_DB_MOCK 'true' or not
Deploy ==
    /\ \A p \in Procs : pc[p] = "idle"
    /\ env' \in [pool : BOOLEAN, allowMock : BOOLEAN]
    /\ UNCHANGED <<qrcodes, sessions, orders, items, pc, req, loc, resp, tenantCtx, now, seen>>

\* ------------------------------------------------------------------ scopes
\* the inputs a specification draws its requests from
TwoTenants ==
    [tenants |-> Tenants, qrs |-> {1, 3}, labels |-> {"T1"},
     closeLabels |-> {"T1", NoLabel}, coLabels |-> {"T1"},
     sids |-> 0..MaxSessions, oids |-> 1..MaxOrders, pays |-> {FALSE}, counts |-> {1},
     pstat |-> {"paid"}, ostat |-> {"READY"}, istat |-> {"COMPLETED"},
     opts |-> {NoOpts}, bad |-> {FALSE}, preps |-> {Undefined}, timed |-> FALSE,
     fails |-> {"none"}]

TwoTables ==
    [tenants |-> {1}, qrs |-> {1, 2}, labels |-> Labels,
     closeLabels |-> Labels, coLabels |-> Labels \cup {"T3"},
     sids |-> 0..MaxSessions, oids |-> 1..MaxOrders, pays |-> {FALSE}, counts |-> {0},
     pstat |-> {"paid"}, ostat |-> {"READY"}, istat |-> {"COMPLETED"},
     opts |-> {NoOpts}, bad |-> {FALSE}, preps |-> {Undefined}, timed |-> FALSE,
     fails |-> {"none"}]

OneTenant ==
    [tenants |-> {1}, qrs |-> {1}, labels |-> {"T1"},
     closeLabels |-> Labels, coLabels |-> {"T1"},
     sids |-> {Null}, oids |-> 1..MaxOrders, pays |-> {FALSE}, counts |-> {1},
     pstat |-> {"paid"}, ostat |-> {"READY"}, istat |-> {"COMPLETED"},
     opts |-> {NoOpts}, bad |-> {FALSE}, preps |-> {Undefined}, timed |-> FALSE,
     fails |-> {"none"}]

OneTable ==
    [tenants |-> {1}, qrs |-> {1}, labels |-> {"T1"},
     closeLabels |-> {"T1", "T2", NoLabel}, coLabels |-> {"T1", NoLabel},
     sids |-> {Null}, oids |-> {1}, pays |-> {FALSE}, counts |-> {0},
     pstat |-> {"paid"}, ostat |-> {"READY"}, istat |-> {"COMPLETED"},
     opts |-> {NoOpts}, bad |-> {FALSE}, preps |-> {Undefined}, timed |-> FALSE,
     fails |-> {"none"}]

Ledger == [OneTenant EXCEPT !.closeLabels = {"T1"}, !.pays = BOOLEAN, !.pstat = PaymentStatuses]

Kitchen ==
    [OneTenant EXCEPT !.pays = BOOLEAN, !.ostat = {"IN_PROGRESS", "READY", "COMPLETED"}]

Diners == [OneTable EXCEPT !.labels = Labels, !.pays = BOOLEAN]

\* order bodies: payment hints, totals, and one item's quantity and price
\* (a quantity of two, of zero, and a negative one)
Bodies ==
    [OneTenant EXCEPT
        !.pays = BOOLEAN,
        !.counts = {0, 1},
        !.opts = {NoOpts,
                  [NoOpts EXCEPT !.paymentMethod = "Online"],
                  [NoOpts EXCEPT !.paymentMethod = "cash"],
                  [NoOpts EXCEPT !.payment_status = " PAID "],
                  [NoOpts EXCEPT !.paymentInfo = [method |-> "paid", amount |-> Undefined]],
                  [NoOpts EXCEPT !.paymentInfo = [method |-> "", amount |-> 10]],
                  [NoOpts EXCEPT !.quantity = 2, !.price = 5],
                  [NoOpts EXCEPT !.totalAmount = 7, !.quantity = 2, !.price = 5],
                  [NoOpts EXCEPT !.totalAmount = 0, !.quantity = 2, !.price = 5],
                  [NoOpts EXCEPT !.quantity = 0, !.price = 5],
                  [NoOpts EXCEPT !.quantity = -2, !.price = 5]}]

\* orders and checkouts whose item may fail to insert
Carts ==
    [OneTenant EXCEPT !.closeLabels = {"T1"}, !.counts = {0, 1}, !.bad = BOOLEAN,
                      !.preps = {Undefined, 20}, !.timed = TRUE]

Watched == [OneTenant EXCEPT !.closeLabels = {"T1"}, !.oids = {1}]

\* two guests arriving at a table that has no QRCodes row yet
Arrivals == [OneTable EXCEPT !.labels = {"T3"}, !.coLabels = {"T3"}]

\* status updates with a status word of the enumeration and one of none, for
\* ids that exist and ids that do not
Audit ==
    [OneTenant EXCEPT
        !.pstat = {"paid", "bogus"},
        !.ostat = {"READY", "bogus"},
        !.istat = {"COMPLETED", "bogus"}]

\* orders whose transaction may fail at any of its statements
Faulty ==
    [OneTenant EXCEPT
        !.closeLabels = {"T1"},
        !.pays = BOOLEAN,
        !.counts = {0, 1},
        !.fails = {"none", "session", "link", "pay", "order", "item"}]

\* orders of one table, settled at the till by session id or by table label
Till == [OneTenant EXCEPT !.closeLabels = {"T1"}, !.pays = BOOLEAN, !.sids = 0..MaxSessions]

\* orders of one table taken through every status
Lifecycle == [OneTenant EXCEPT !.counts = {0}, !.ostat = allowedStatuses]

\* every way to seat diners, at the tables of both tenants
Links ==
    [TwoTables EXCEPT !.tenants = Tenants, !.qrs = {1, 3}, !.labels = {"T1"},
                      !.coLabels = {"T1", NoLabel},
                      !.closeLabels = {"T1", NoLabel}, !.sids = {Null, 1}]

\* ------------------------------------------------------------------- Next
\* requests of one tenant at one table, served concurrently
RaceStep(p, S) ==
    \/ Scan(p, S)
    \/ EnsureSession(p, S)
    \/ EasCheck(p)
    \/ EasInsert(p)
    \/ EasLink(p)
    \/ EasTouch(p)
    \/ StartSession(p, S)
    \/ StartCheck(p)
    \/ StartActive(p)
    \/ StartRelink(p)
    \/ StartInsert(p)
    \/ StartLink(p)
    \/ CloseSession(p, S)
    \/ CloseClear(p)
    \/ Checkout(p, S)
    \/ CoSelectCurrent(p)
    \/ CoSelectActive(p)
    \/ CoInsertSession(p)
    \/ CoLink(p)
    \/ CoInsertOrder(p)
    \/ PlaceOrder(p, S)
    \/ PoSelectSession(p)
    \/ PoCommit(p)

NextRace == \E p \in Procs : RaceStep(p, OneTable)

SpecRace == Init /\ [][NextRace]_vars

\* requests of both tenants, served one at a time
TenantStep(p, S) ==
    \/ CloseSession(p, S)
    \/ CloseClear(p)
    \/ Checkout(p, S)
    \/ CoAfterInvalid(p)
    \/ CoSelectCurrent(p)
    \/ CoSelectActive(p)
    \/ CoInsertSession(p)
    \/ CoLink(p)
    \/ CoInsertOrder(p)
    \/ CoInsertItem(p)
    \/ UpdatePaymentStatus(p, S)
    \/ UpdateOrderStatus(p, S)
    \/ UpdateItemStatus(p, S)
    \/ MarkPaid(p, S)
    \/ MpUpdate(p)

NextTenants == TenantStep("p1", TwoTenants)

SpecTenants == Init /\ [][NextTenants]_vars

\* requests of one tenant at two tables, served one at a time
TableStep(p, S) ==
    \/ EnsureSession(p, S)
    \/ EasCheck(p)
    \/ EasInsert(p)
    \/ EasLink(p)
    \/ EasTouch(p)
    \/ CloseSession(p, S)
    \/ CloseClear(p)
    \/ Checkout(p, S)
    \/ CoAfterInvalid(p)
    \/ CoInsertQr(p)
    \/ CoSelectCurrent(p)
    \/ CoSelectActive(p)
    \/ CoInsertSession(p)
    \/ CoLink(p)
    \/ CoInsertOrder(p)

NextTables == TableStep("p1", TwoTables)

SpecTables == Init /\ [][NextTables]_vars

\* one table's life as the dashboard sees it
BoardStep(p, S) ==
    \/ Scan(p, S)
    \/ EasCheck(p)
    \/ EasInsert(p)
    \/ EasLink(p)
    \/ EasTouch(p)
    \/ CloseSession(p, S)
    \/ CloseClear(p)
    \/ PlaceOrder(p, S)
    \/ PoSelectSession(p)
    \/ PoCommit(p)
    \/ UpdatePaymentStatus(p, S)
    \/ UpdateOrderStatus(p, S)
    \/ UpdateItemStatus(p, S)
    \/ GetTableOverview(p, S)

NextBoard == BoardStep("p1", OneTenant)

SpecBoard == Init /\ [][NextBoard]_vars

\* one table's orders and the dashboard client that watches them
WatchStep(p, S) ==
    \/ PlaceOrder(p, S)
    \/ PoSelectSession(p)
    \/ PoCommit(p)
    \/ CloseSession(p, S)
    \/ CloseClear(p)
    \/ UpdatePaymentStatus(p, S)
    \/ UpdateOrderStatus(p, S)
    \/ UpdateItemStatus(p, S)
    \/ GetTableOverview(p, S)
    \/ KeepRow

NextWatch == WatchStep("p1", Watched)

SpecWatch == Init /\ [][NextWatch]_vars

\* one table's orders, placed over a database that may refuse a statement
NextFaults ==
    \/ PlaceOrder("p1", Faulty)
    \/ PoSelectSession("p1")
    \/ PoCommit("p1")
    \/ CloseSession("p1", Faulty)
    \/ CloseClear("p1")

SpecFaults == Init /\ [][NextFaults]_vars

\* every awaited query is answered, and the handler runs on from it
SpecFaultsFair ==
    /\ SpecFaults
    /\ WF_vars(PoSelectSession("p1"))
    /\ WF_vars(PoCommit("p1"))

\* one table's orders, marked paid at the till
NextTill ==
    \/ PlaceOrder("p1", Till)
    \/ PoSelectSession("p1")
    \/ PoCommit("p1")
    \/ MarkPaid("p1", Till)
    \/ MpUpdate("p1")
    \/ CloseSession("p1", Till)
    \/ CloseClear("p1")

SpecTill == Init /\ [][NextTill]_vars

\* one table's orders and their statuses
NextLifecycle ==
    \/ PlaceOrder("p1", Lifecycle)
    \/ PoSelectSession("p1")
    \/ PoCommit("p1")
    \/ UpdateOrderStatus("p1", Lifecycle)

SpecLifecycle == Init /\ [][NextLifecycle]_vars

\* scans, starts, checkouts and orders that link tables to sessions
NextLinks ==
    \/ EnsureSession("p1", Links)
    \/ EasCheck("p1")
    \/ EasInsert("p1")
    \/ EasLink("p1")
    \/ EasTouch("p1")
    \/ StartSession("p1", Links)
    \/ StartCheck("p1")
    \/ StartActive("p1")
    \/ StartRelink("p1")
    \/ StartInsert("p1")
    \/ StartLink("p1")
    \/ Checkout("p1", Links)
    \/ CoAfterInvalid("p1")
    \/ CoSelectCurrent("p1")
    \/ CoSelectActive("p1")
    \/ CoInsertSession("p1")
    \/ CoLink("p1")
    \/ CoInsertOrder("p1")
    \/ PlaceOrder("p1", Links)
    \/ PoSelectSession("p1")
    \/ PoCommit("p1")
    \/ CloseSession("p1", Links)
    \/ CloseClear("p1")

SpecLinks == Init /\ [][NextLinks]_vars

\* one table seated and closed while time passes
NextClosing ==
    \/ EnsureSession("p1", OneTable)
    \/ EasCheck("p1")
    \/ EasInsert("p1")
    \/ EasLink("p1")
    \/ EasTouch("p1")
    \/ CloseSession("p1", OneTable)
    \/ CloseClear("p1")
    \/ Tick

SpecClosing == Init /\ [][NextClosing]_vars

\* one table's orders and their payments
LedgerStep(p, S) ==
    \/ PlaceOrder(p, S)
    \/ PoSelectSession(p)
    \/ PoCommit(p)
    \/ CloseSession(p, S)
    \/ CloseClear(p)
    \/ UpdatePaymentStatus(p, S)

NextLedger == LedgerStep("p1", Ledger)

SpecLedger == Init /\ [][NextLedger]_vars

\* one table's orders on their way through the kitchen
KitchenStep(p, S) ==
    \/ PlaceOrder(p, S)
    \/ PoSelectSession(p)
    \/ PoCommit(p)
    \/ UpdateOrderStatus(p, S)
    \/ UpdateItemStatus(p, S)
    \/ Tick

NextKitchen == KitchenStep("p1", Kitchen)

SpecKitchen == Init /\ [][NextKitchen]_vars

\* orders placed concurrently at one table
OrdersStep(p, S) ==
    \/ PlaceOrder(p, S)
    \/ PoSelectSession(p)
    \/ PoCommit(p)

NextOrders == \E p \in Procs : OrdersStep(p, Diners)

SpecOrders == Init /\ [][NextOrders]_vars

\* orders with every kind of body, placed one at a time
IntentStep(p, S) ==
    \/ PlaceOrder(p, S)
    \/ PoSelectSession(p)
    \/ PoCommit(p)

NextIntent == IntentStep("p1", Bodies)

SpecIntent == Init /\ [][NextIntent]_vars

\* orders and checkouts with items, one request at a time
CartStep(p, S) ==
    \/ PlaceOrder(p, S)
    \/ PoSelectSession(p)
    \/ PoCommit(p)
    \/ Checkout(p, S)
    \/ CoSelectCurrent(p)
    \/ CoSelectActive(p)
    \/ CoInsertSession(p)
    \/ CoLink(p)
    \/ CoInsertOrder(p)
    \/ CoInsertItem(p)
    \/ CloseSession(p, S)
    \/ CloseClear(p)

NextCarts ==
    \/ CartStep("p1", Carts)
    \/ Tick

SpecCarts == Init /\ [][NextCarts]_vars

\* concurrent first requests for a new table label
NextArrivals ==
    \E p \in Procs :
        \/ Checkout(p, Arrivals)
        \/ CoInsertQr(p)
        \/ CoSelectQrAgain(p)
        \/ CoSelectCurrent(p)
        \/ CoSelectActive(p)
        \/ CoInsertSession(p)
        \/ CoLink(p)
        \/ CoInsertOrder(p)
        \/ StartSession(p, Arrivals)
        \/ StartCheck(p)
        \/ StartActive(p)
        \/ StartRelink(p)
        \/ StartInsert(p)
        \/ StartLink(p)

SpecArrivals == Init /\ [][NextArrivals]_vars

\* orders and checkouts across restarts with and without a database
NextOutage ==
    \/ Deploy
    \/ CartStep("p1", Carts)

SpecOutage == Init /\ [][NextOutage]_vars

\* status updates of the admin routes, valid and invalid
NextAudit ==
    \/ PlaceOrder("p1", Audit)
    \/ PoSelectSession("p1")
    \/ PoCommit("p1")
    \/ UpdatePaymentStatus("p1", Audit)
    \/ UpdateOrderStatus("p1", Audit)
    \/ UpdateItemStatus("p1", Audit)

SpecAudit == Init /\ [][NextAudit]_vars

\* ----------------------------------------------------------------- claims
ActiveOn(q) ==
    {s \in SessionIds : sessions[s].qr_code_id = q /\ sessions[s].status = "active"}

\* C1: in every reachable state, under any interleaving of scan, EnsureSession,
\* StartSession, checkout, PlaceOrder and CloseSession, each table has at most
\* one DiningSession with status = active.
C1_AtMostOneActivePerTable == \A q \in QrIds : Cardinality(ActiveOn(q)) <= 1

\* C2: the close clears a table's pointer only when the pointer equals the
\* closed session S at the moment of the clear: every pointer the clearing
\* statement changes referenced S and becomes empty, so a newer session linked
\* in the meantime stays linked.
C2_CloseClearsOnlyOwnPointer ==
    [][\A p \in Procs :
        (pc[p] = "close_clear" /\ pc'[p] = "idle") =>
            \A q \in QrIds :
                qrcodes'[q].current_session_id # qrcodes[q].current_session_id =>
                    /\ qrcodes[q].current_session_id = req[p].sid
                    /\ qrcodes'[q].current_session_id = Null]_vars

\* the close of session S at its own table T answered last, nothing is in
\* flight, and T points at a newer session that was linked before the clear ran
C2_NewerSessionStaysLinked ==
    /\ InFlight = {}
    /\ resp.op = "close"
    /\ resp.sid \in SessionIds
    /\ sessions[resp.sid].status = "completed"
    /\ LET q == sessions[resp.sid].qr_code_id IN
        /\ qrcodes[q].current_session_id \in SessionIds
        /\ qrcodes[q].current_session_id > resp.sid
        /\ sessions[qrcodes[q].current_session_id].status = "active"

\* the step is taken by an ensure-session request for QR code q
EnsureStepOn(q) ==
    \/ /\ pc["p1"] # "idle"
       /\ req["p1"].kind = "ensure"
       /\ loc["p1"].qr = q
    \/ /\ pc["p1"] = "idle"
       /\ pc'["p1"] # "idle"
       /\ req'["p1"].kind = "ensure"
       /\ loc'["p1"].qr = q

\* C3: EnsureSession is idempotent: an ensure-session call that directly
\* follows a successful ensure-session call on the same table changes no row
\* (creates no session, leaves the pointer alone) and answers with the same
\* session id, reused.
C3_EnsureSessionIdempotent ==
    [][(resp.op = "ensure" /\ resp.code = 200 /\ EnsureStepOn(resp.qr)) =>
        /\ db' = db
        /\ pc'["p1"] # "eas_insert"
        /\ pc'["p1"] = "idle" =>
            /\ resp'.op = "ensure"
            /\ resp'.code = 200
            /\ resp'.sid = resp.sid
            /\ resp'.qr = resp.qr
            /\ resp'.reused]_vars

\* the second of two consecutive calls has found the session the first call
\* created and is about to answer with it
C3_SecondCallReuses ==
    /\ pc["p1"] = "eas_touch"
    /\ req["p1"].kind = "ensure"
    /\ resp.op = "ensure"
    /\ resp.code = 200
    /\ ~resp.reused
    /\ loc["p1"].qr = resp.qr
    /\ loc["p1"].reused
    /\ loc["p1"].sid = resp.sid
    /\ qrcodes[resp.qr].current_session_id = resp.sid

\* C4: whenever no request is in flight, each table's pointer is empty or
\* references a session with status = active.
C4_PointerEmptyOrActive ==
    InFlight = {} =>
        \A q \in QrIds :
            \/ qrcodes[q].current_session_id = Null
            \/ /\ qrcodes[q].current_session_id \in SessionIds
               /\ sessions[qrcodes[q].current_session_id].status = "active"

\* C5: every Order created by PlaceOrder or checkout references a session
\* whose status is active when the order is committed.
C5_OrderOnActiveSession ==
    [][\A o \in (DOMAIN orders') \ OrderIds :
        /\ orders'[o].dining_session_id \in DOMAIN sessions'
        /\ sessions'[orders'[o].dining_session_id].status = "active"]_vars

StepTenant == IF pc'["p1"] = "idle" THEN resp'.tenant ELSE req'["p1"].tenant
StepOp == IF pc'["p1"] = "idle" THEN resp'.op ELSE req'["p1"].kind

\* C7: no CloseSession, UpdateOrderStatus, UpdateItemStatus,
\* UpdatePaymentStatus or mark-paid request issued with tenant A changes a
\* QR code, session, order or order item owned by another tenant.
C7_TenantIsolation ==
    [][(StepOp \in {"close", "status", "item", "payment", "markpaid"}) =>
        /\ \A q \in QrIds :
            qrcodes[q].business_id # StepTenant => qrcodes'[q] = qrcodes[q]
        /\ \A s \in SessionIds :
            sessions[s].business_id # StepTenant => sessions'[s] = sessions[s]
        /\ \A o \in OrderIds :
            orders[o].business_id # StepTenant => orders'[o] = orders[o]
        /\ \A i \in ItemIds :
            orders[items[i].order_id].business_id # StepTenant => (items'[i] = items[i])]_vars

\* C8: a checkout given a session id records its order against that session
\* only if the session belongs to the requesting tenant, is active, and
\* belongs to the table named in the request.
C8_ProvidedSessionChecked ==
    [][\A o \in (DOMAIN orders') \ OrderIds :
        LET s == orders'[o].dining_session_id IN
        (pc["p1"] = "co_order" /\ req["p1"].sid # Null /\ s = req["p1"].sid) =>
            /\ s \in SessionIds
            /\ sessions[s].business_id = req["p1"].tenant
            /\ sessions[s].status = "active"
            /\ req["p1"].table # NoLabel =>
                (qrcodes[sessions[s].qr_code_id].table_number = req["p1"].table)]_vars

\* the session a table's pointer references, seen as the dashboard's inputs
BoardActive(q) ==
    /\ qrcodes[q].current_session_id \in SessionIds
    /\ sessions[qrcodes[q].current_session_id].status = "active"
BoardOrders(q) ==
    {o \in OrderIds : /\ qrcodes[q].current_session_id # Null
                      /\ orders[o].dining_session_id = qrcodes[q].current_session_id}
BoardAnyReady(q) ==
    \/ \E o \in BoardOrders(q) : orders[o].status \in {"READY", "COMPLETED"}
    \/ \E i \in ItemIds : items[i].order_id \in BoardOrders(q) /\ items[i].item_status = "COMPLETED"

\* C9: under eat_later the overview answers, for every table of the tenant:
\* ash iff the table's current session is not active; yellow iff it is active
\* with zero orders or with an order that is not paid; green iff it is active
\* with at least one order and every order paid.
C9_EatLaterTable ==
    (InFlight = {} /\ resp.op = "overview" /\ resp.mode = "eat_later") =>
        /\ {v.qr_code_id : v \in resp.out} = {q \in QrIds : qrcodes[q].business_id = resp.tenant}
        /\ \A v \in resp.out :
            LET unpaid == \E o \in BoardOrders(v.qr_code_id) : orders[o].payment_status # "paid"
                n == Cardinality(BoardOrders(v.qr_code_id))
            IN /\ v.color \in {"ash", "yellow", "green"}
               /\ v.color = "ash" <=> ~BoardActive(v.qr_code_id)
               /\ v.color = "yellow" <=> (BoardActive(v.qr_code_id) /\ (n = 0 \/ unpaid))
               /\ v.color = "green" <=> (BoardActive(v.qr_code_id) /\ n >= 1 /\ ~unpaid)

\* an eat_later overview that shows one table green with two paid orders and
\* another table ash
C9_GreenAndAshShown ==
    /\ InFlight = {}
    /\ resp.op = "overview"
    /\ resp.mode = "eat_later"
    /\ \E v, w \in resp.out :
        /\ v.color = "green"
        /\ Cardinality(BoardOrders(v.qr_code_id)) = 2
        /\ w.color = "ash"

RowTuple(v) ==
    <<v.session_id # Null /\ v.session_status = "active", v.orders_count, v.unpaid_exists,
      v.any_ready_order \/ v.any_item_completed, v.all_paid, v.any_paid_order>>

\* a step in which GET /overview is served
OverviewStep ==
    /\ pc["p1"] = "idle"
    /\ pc'["p1"] = "idle"
    /\ resp'.op = "overview"
    /\ seen' = seen

\* C11: the verdict is a function of (active, orders, unpaidExists, anyReady,
\* allPaid, anyPaid) and the policy: whenever an overview is served, any two
\* of its rows, and any of its rows and a row kept from an earlier overview,
\* that agree on the policy and on the tuple carry the same color and reason;
\* and serving the overview changes no QR code, session, order or order item.
C11_VerdictIsFunctionOfTuple ==
    [][OverviewStep =>
        /\ db' = db
        /\ \A v \in resp'.out : \A w \in resp'.out \cup {seen} :
            (w.mode_applied = v.mode_applied /\ RowTuple(w) = RowTuple(v)) =>
                (w.color = v.color /\ w.reason = v.reason)]_vars

\* an overview shows a table green under pay_first with the same tuple as in
\* a row kept earlier, the two rows differing in what made a dish ready
C11_SameTupleAtTwoTimes ==
    /\ resp.op = "overview"
    /\ \E v \in resp.out :
        /\ v.mode_applied = "pay_first"
        /\ seen.mode_applied = "pay_first"
        /\ RowTuple(v) = RowTuple(seen)
        /\ v.any_item_completed # seen.any_item_completed
        /\ v.color = "green"

\* the color the overview computes for table q under eat_later
EatLaterColor(q) == Classify("eat_later", OverviewRow(q)).color
BoardUnpaid(q) == \E o \in BoardOrders(q) : orders[o].payment_status # "paid"

\* C12: under eat_later, after every UpdatePaymentStatus a table whose
\* current session is active and holds at least one order is yellow while
\* one of these orders is not paid and green otherwise, and it turns green
\* exactly at the update that makes the last unpaid order paid.
C12_EatLaterFollowsPayments ==
    [][(StepOp = "payment") =>
        \A q \in QrIds : (BoardActive(q) /\ BoardOrders(q) # {}) =>
            /\ EatLaterColor(q)' = IF BoardUnpaid(q)' THEN "yellow" ELSE "green"
            /\ (EatLaterColor(q) # "green" /\ EatLaterColor(q)' = "green")
                    <=> (BoardUnpaid(q) /\ ~BoardUnpaid(q)')]_vars

\* a payment update was answered last and left a table with two orders, one
\* paid and one partially paid, so the table is still yellow
C12_YellowWhileOneUnpaid ==
    /\ InFlight = {}
    /\ resp.op = "payment"
    /\ resp.code = 200
    /\ \E q \in QrIds :
        /\ BoardActive(q)
        /\ \E o, u \in BoardOrders(q) :
            orders[o].payment_status = "paid" /\ orders[u].payment_status = "partially_paid"
        /\ EatLaterColor(q) = "yellow"

\* the color GET /by-table computes for table q
ByTableColor(q) == byTableColor(ByTableRow(q))

\* C14: when an order is placed unpaid on an active session that already holds
\* a paid order, the table is yellow under eat_later, in the overview and in
\* the by-table listing alike, whatever the earlier paid orders and whatever
\* the session's own payment_status.
C14_UnpaidOrderForcesYellow ==
    [][\A p \in Procs :
        (pc[p] = "po_commit" /\ pc'[p] = "idle" /\ ~req[p].pay) =>
            \A q \in QrIds, s \in SessionIds :
                (/\ q = loc[p].qr
                 /\ s = resp'.sid
                 /\ sessions[s].status = "active"
                 /\ \E o \in OrdersOf(s) : orders[o].payment_status = "paid"
                 /\ qrcodes'[q].current_session_id = s) =>
                    /\ EatLaterColor(q)' = "yellow"
                    /\ ByTableColor(q)' = "yellow"]_vars

\* an unpaid order was placed last on an active session whose own
\* payment_status is paid and which holds a paid order; the table is yellow
C14_UnpaidAfterPaidSession ==
    /\ InFlight = {}
    /\ resp.op = "order"
    /\ resp.code = 201
    /\ resp.sid \in SessionIds
    /\ sessions[resp.sid].status = "active"
    /\ sessions[resp.sid].payment_status = "paid"
    /\ orders[Len(orders)].dining_session_id = resp.sid
    /\ orders[Len(orders)].payment_status = "unpaid"
    /\ \E o \in OrdersOf(resp.sid) : orders[o].payment_status = "paid"
    /\ \E q \in QrIds : qrcodes[q].current_session_id = resp.sid /\ ByTableColor(q) = "yellow"

\* the color the overview computes for table q under pay_first
PayFirstColor(q) == Classify("pay_first", OverviewRow(q)).color
BoardPaid(q) == \E o \in BoardOrders(q) : orders[o].payment_status = "paid"

C18_ReadyTimeStampedOnce ==
    [][/\ \A o \in OrderIds :
            LET ready == orders'[o].status \in {"READY", "COMPLETED"} IN
            /\ orders[o].actual_ready_time = Null =>
                    orders'[o].actual_ready_time = IF ready THEN now ELSE Null
            /\ orders[o].actual_ready_time # Null =>
                    orders'[o].actual_ready_time = orders[o].actual_ready_time
       /\ \A o \in DOMAIN orders' \ OrderIds :
            /\ orders'[o].actual_ready_time = Null
            /\ orders'[o].status \notin {"READY", "COMPLETED"}]_vars

\* a status update answered last took an order out of READY/COMPLETED at a
\* later time than its stamp, and the stamp is still the first one
C18_StampKeptAfterLeaving ==
    /\ InFlight = {}
    /\ resp.op = "status"
    /\ resp.code = 200
    /\ \E o \in OrderIds :
        /\ orders[o].status = "IN_PROGRESS"
        /\ orders[o].actual_ready_time # Null
        /\ orders[o].actual_ready_time < now

\* C15: PlaceOrder requests for one table that run concurrently all commit,
\* and once they have finished every committed order is attached to the one
\* session the table's pointer references.
C15_OrdersShareTheTablesSession ==
    InFlight = {} =>
        /\ resp.op = "order" => resp.code = 201
        /\ \A o \in OrderIds :
            LET s == orders[o].dining_session_id IN
            qrcodes[sessions[s].qr_code_id].current_session_id = s

\* a close has set its session to completed and not yet cleared the pointer
HalfClosed(p) ==
    /\ pc[p] = "close_clear"
    /\ req[p].sid \in SessionIds
    /\ sessions[req[p].sid].status = "completed"
    /\ CloseClears(req[p].tenant, req[p].table, req[p].sid) # {}

\* a creation has inserted its active session and not yet linked the pointer
HalfCreated(p) ==
    /\ pc[p] \in {"eas_link", "start_link", "co_link"}
    /\ loc[p].sid \in SessionIds
    /\ sessions[loc[p].sid].status = "active"
    /\ qrcodes[loc[p].qr].current_session_id # loc[p].sid

\* C16: no request runs a statement against an intermediate state of another
\* operation: while a request r takes a step, no other request p has a close
\* half-done (session completed, pointer still referencing it) or a creation
\* half-done (active session inserted, pointer not yet referencing it).
C16_NoHalfDoneStateObserved ==
    [][\A r, p \in Procs :
        (r # p /\ pc'[r] # pc[r]) => (~HalfClosed(p) /\ ~HalfCreated(p))]_vars

\* C17: a close called again on a session that is already completed answers
\* success, with the very response the first call gave, never an error.
C17_SecondCloseSucceeds ==
    [][\A p \in Procs :
        (/\ pc[p] = "close_clear"
         /\ pc'[p] = "idle"
         /\ req[p].sid \in SessionIds
         /\ resp.op = "close"
         /\ resp.sid = req[p].sid) =>
            (resp'.code = 200 /\ resp' = resp)]_vars

\* the close of a session answered last and a second close of the same,
\* completed session has run its first statement
C17_SecondCloseInFlight ==
    /\ pc["p1"] = "close_clear"
    /\ resp.op = "close"
    /\ resp.code = 200
    /\ resp.sid = req["p1"].sid
    /\ resp.sid \in SessionIds
    /\ sessions[resp.sid].status = "completed"
    /\ \A q \in QrIds : qrcodes[q].current_session_id # resp.sid

\* the immediate-payment intent of an order body: an explicit pay flag, a
\* payment method online or paid, an explicit paid status, or a nested
\* payment-amount object
Intent(x) ==
    \/ x.rawPayNow
    \/ toLowerCase(x.paymentMethod) \in {"online", "paid"}
    \/ toLowerCase(x.paymentInfo.method) \in {"online", "paid"}
    \/ toLowerCase(trim(x.payment_status)) = "paid"
    \/ x.paymentInfo.amount # Undefined

\* C19: a new order is created paid, and its session's payment_status set to
\* paid, exactly when the request carries an immediate-payment intent;
\* otherwise the order is created unpaid and the session's payment_status is
\* what it was (unpaid for a session created with the order).
C19_PaidIffIntent ==
    [][\A p \in Procs :
        (pc[p] = "po_commit" /\ pc'[p] = "idle") =>
            \A s \in DOMAIN sessions' : s = resp'.sid =>
                IF Intent(req[p].opts)
                THEN /\ orders'[Len(orders')].payment_status = "paid"
                     /\ sessions'[s].payment_status = "paid"
                ELSE /\ orders'[Len(orders')].payment_status = "unpaid"
                     /\ sessions'[s].payment_status =
                            IF s \in SessionIds THEN sessions[s].payment_status ELSE "unpaid"]_vars

RECURSIVE ItemsTotal(_, _)
\* the sum of quantity * price over the rows I of the order items its
ItemsTotal(its, I) ==
    IF I = {} THEN 0
    ELSE LET i == CHOOSE x \in I : TRUE
         IN its[i].quantity * its[i].price + ItemsTotal(its, I \ {i})

\* C20: the total_amount stored for a new order is the caller's total when
\* the caller supplies one greater than zero, and otherwise the sum over the
\* order's items of quantity * price.
C20_TotalIsSuppliedOrSum ==
    [][\A p \in Procs :
        (pc[p] = "po_commit" /\ pc'[p] = "idle") =>
            orders'[Len(orders')].total_amount =
                IF req[p].opts.totalAmount # Undefined /\ req[p].opts.totalAmount > 0
                THEN req[p].opts.totalAmount
                ELSE ItemsTotal(items', {i \in DOMAIN items' : items'[i].order_id = Len(orders')})]_vars

\* C21: when an item of a PlaceOrder or checkout request cannot be inserted,
\* the order is persisted all the same and the call answers success with the
\* failure reported; the item's failure never aborts or rolls back the order.
C21_ItemFailureKeepsOrder ==
    [][\A p \in Procs :
        (/\ pc[p] \in {"po_commit", "co_item"}
         /\ pc'[p] = "idle"
         /\ req[p].n > 0
         /\ req[p].bad) =>
            /\ resp'.code \in {200, 201}
            /\ resp'.failed
            /\ IF pc[p] = "co_item"
               THEN loc[p].oid \in DOMAIN orders'
               ELSE Len(orders') = Len(orders) + 1]_vars

\* status words of the three enumerations and one of none; ids up to one past
\* the last row that can exist
AnyStatus == PaymentStatuses \cup allowedStatuses \cup itemStatuses \cup {"bogus"}
AnyId == 1..(MaxOrders + 1)

\* C22: the three status updates answer 400 to a status outside their
\* enumeration and 404 to an id of no row, and a status update answered with
\* 400 or 404 leaves every order and every order item as it was.
C22_BadPatchRejected ==
    /\ [](\A id \in AnyId, st \in AnyStatus :
            /\ st \notin PaymentStatuses => PatchPayment(id, st) = [code |-> 400, rows |-> orders]
            /\ st \notin allowedStatuses => PatchStatus(id, st) = [code |-> 400, rows |-> orders]
            /\ st \notin itemStatuses => PatchItemStatus(id, st) = [code |-> 400, rows |-> items]
            /\ (st \in PaymentStatuses /\ id \notin OrderIds) =>
                    PatchPayment(id, st) = [code |-> 404, rows |-> orders]
            /\ (st \in allowedStatuses /\ id \notin OrderIds) =>
                    PatchStatus(id, st) = [code |-> 404, rows |-> orders]
            /\ (st \in itemStatuses /\ id \notin ItemIds) =>
                    PatchItemStatus(id, st) = [code |-> 404, rows |-> items])
    /\ [][(/\ pc["p1"] = "idle"
           /\ pc'["p1"] = "idle"
           /\ resp'.op \in {"payment", "status", "item"}
           /\ resp'.code \in {400, 404}) =>
              (orders' = orders /\ items' = items)]_vars

\* an unknown id was answered with 404 while orders and items exist
C22_Witness ==
    /\ resp.op \in {"payment", "status", "item"}
    /\ resp.code = 404
    /\ orders # <<>>
    /\ items # <<>>

\* a request whose supplied session id names a session that is closed or is
\* another tenant's
StaleOrForeign(p) ==
    /\ req[p].kind \in {"checkout", "order"}
    /\ req[p].sid \in SessionIds
    /\ \/ sessions[req[p].sid].status # "active"
       \/ sessions[req[p].sid].business_id # req[p].tenant

\* C23: a request that supplies the id of a closed session or of another
\* tenant's session inserts no order and, when it ends, ends with 403; it is
\* not carried on with another session.
C23_StaleSessionForbidden ==
    [][\A p \in Procs :
        StaleOrForeign(p) =>
            /\ orders' = orders
            /\ pc'[p] = "idle" => resp'.code = 403]_vars

\* the id names no session of tenant b
NoSuchSession(b, s) == s \notin SessionIds \/ sessions[s].business_id # b

\* C24: a close whose session id matches no session of the requesting tenant
\* changes no session and no table pointer and is answered with 404.
C24_CloseUnknownNotFound ==
    [][\A p \in Procs :
        /\ (/\ pc[p] = "idle"
            /\ req'[p].kind = "close"
            /\ NoSuchSession(req'[p].tenant, req'[p].sid)) =>
                (sessions' = sessions /\ qrcodes' = qrcodes)
        /\ (/\ pc[p] = "close_clear"
            /\ pc'[p] = "idle"
            /\ NoSuchSession(req[p].tenant, req[p].sid)) =>
                (sessions' = sessions /\ qrcodes' = qrcodes /\ resp'.code = 404)]_vars

\* the request has its table: it is past the statements that resolve the label
Resolved(p) == pc[p] \notin {"idle", "co_qrins", "co_qragain"}

\* C25: however requests for one (tenant, label) interleave, there is at most
\* one QRCodes row for the pair, every request that has resolved the label
\* holds the id of that one row, and no request is answered with an error.
C25_OneRowPerLabel ==
    /\ \A b \in Tenants, t \in Labels \cup {"T3"} : Cardinality(QrByLabel(b, t)) <= 1
    /\ \A p \in Procs :
        Resolved(p) => QrByLabel(req[p].tenant, req[p].table) = {loc[p].qr}
    /\ resp.code \in {0, 200}

\* one request's INSERT met the unique violation while the other request
\* already holds the row
C25_Witness ==
    \E p \in Procs, q \in Procs :
        /\ pc[p] = "co_qragain"
        /\ Resolved(q)
        /\ req[q].table = req[p].table
        /\ QrByLabel(req[p].tenant, req[p].table) = {loc[q].qr}

\* C26: while there is no pool, every order or checkout request is answered
\* with 503 and writes nothing; a mock success is answered only when
\* ALLOW_DB_MOCK is enabled.
C26_NoPoolUnavailable ==
    [][(/\ ~env.pool
        /\ env' = env
        /\ resp'.op \in {"order", "checkout"}) =>
            /\ <<qrcodes, sessions, orders, items>>' = <<qrcodes, sessions, orders, items>>
            /\ \/ resp'.code = 503
               \/ env.allowMock /\ resp'.mock]_vars

C28_QuantityPositive ==
    [][\A p \in Procs :
        (pc[p] = "po_commit" /\ pc'[p] = "idle" /\ req[p].n > 0) =>
            /\ \A i \in (DOMAIN items') \ ItemIds : items'[i].quantity > 0
            /\ (req[p].opts.quantity # Undefined /\ req[p].opts.quantity <= 0) =>
                    (items' = items)]_vars

\* the preparation time of a request: the minutes the caller supplies, or
\* the default of fifteen
PrepTime(r) == IF r.prep # Undefined THEN r.prep ELSE 15

\* C29: an order inserted for a PlaceOrder or checkout request has
\* estimated_ready_time = placed_at + the request's preparation time.
C29_EstimatedReadyTime ==
    [][\A p \in Procs : \A o \in (DOMAIN orders') \ OrderIds :
        (pc[p] \in {"po_commit", "co_order"}) =>
            /\ orders'[o].timing.placed_at = now
            /\ orders'[o].timing.estimated_ready_time =
                    orders'[o].timing.placed_at + PrepTime(req[p])]_vars

\* C30: while a request is being served, the app.current_tenant setting of
\* its connection is the request's tenant: the value set by withTenant holds
\* for every later statement of the request.
C30_TenantContextHeld ==
    \A p \in InFlight : tenantCtx[p] = req[p].tenant

\* C31: the colorHint answered by POST /api/orders is the color the by-table
\* listing gives the order's table in the state the commit leaves.
C31_ColorHintIsByTableColor ==
    [][\A p \in Procs : \A q \in QrIds :
        (/\ pc[p] = "po_commit"
         /\ pc'[p] = "idle"
         /\ resp'.code = 201
         /\ q = loc[p].qr) =>
            resp'.colorHint = ByTableColor(q)']_vars

\* C32: the eat_later overview and the by-table listing give every table the
\* same color, in every state.
C32_EatLaterIsByTable ==
    \A q \in QrIds : EatLaterColor(q) = ByTableColor(q)

\* C33: from any state of a table, POST /api/sessions/start and
\* ensureActiveSession answer the same session and leave the same sessions and
\* the same pointers.
C33_StartIsEnsure ==
    \A q \in QrIds :
        LET b == qrcodes[q].business_id IN
        /\ startOrReuse(b, q).sid = ensureActiveSession(b, q).sid
        /\ startOrReuse(b, q).sessions = ensureActiveSession(b, q).sessions
        /\ startOrReuse(b, q).qrcodes = ensureActiveSession(b, q).qrcodes

\* C34: when a statement of POST /api/orders raises an error after BEGIN, the
\* request is answered 500 and no row is left changed: no session, no pointer,
\* no session payment status, no order, no item.
C34_FailedOrderLeavesNothing ==
    [][\A p \in Procs :
        (pc[p] = "po_commit" /\ pc'[p] = "idle" /\ resp'.code # 201) =>
            /\ resp'.code = 500
            /\ UNCHANGED <<qrcodes, sessions, orders, items>>]_vars

\* the UPDATE that marks a new session paid was refused after the session had
\* been inserted and linked, and no session is left
C34_Witness ==
    /\ resp.op = "order"
    /\ resp.code = 500
    /\ resp.message = "pay"
    /\ sessions = <<>>
    /\ \A q \in QrIds : qrcodes[q].current_session_id = Null

\* the active sessions created for QR code q of tenant b
ActiveAt(b, q) ==
    {s \in SessionIds : /\ sessions[s].business_id = b
                        /\ sessions[s].qr_code_id = q
                        /\ sessions[s].status = "active"}

\* C35: POST /api/sessions/start, past the check of the linked session and
\* finding an active session of the table, inserts no session: it points the
\* table at the most recently started active session and answers it as reused.
C35_StartRelinksActive ==
    [][\A p \in Procs : \A q \in QrIds :
        /\ (/\ pc[p] = "start_active"
            /\ pc'[p] # "start_active"
            /\ q = loc[p].qr
            /\ ActiveAt(req[p].tenant, q) # {}) =>
                /\ sessions' = sessions
                /\ \/ /\ pc'[p] = "start_relink"
                      /\ loc'[p].sid = Max(ActiveAt(req[p].tenant, q))
                   \/ /\ pc'[p] = "idle"
                      /\ qrcodes[q].current_session_id = Max(ActiveAt(req[p].tenant, q))
                      /\ qrcodes' = qrcodes
                      /\ resp'.sid = Max(ActiveAt(req[p].tenant, q))
                      /\ resp'.reused
        /\ (pc[p] = "start_relink" /\ pc'[p] # "start_relink" /\ q = loc[p].qr) =>
                /\ sessions' = sessions
                /\ qrcodes' = [qrcodes EXCEPT ![q].current_session_id = loc[p].sid]
                /\ pc'[p] = "idle"
                /\ resp'.code = 200
                /\ resp'.sid = loc[p].sid
                /\ resp'.reused]_vars

\* a start was answered with a session another request has inserted and not
\* linked yet
C35_Witness ==
    /\ resp.op = "start"
    /\ resp.code = 200
    /\ resp.reused
    /\ \E p \in Procs : pc[p] = "start_link" /\ loc[p].sid = resp.sid
    /\ \E q \in QrIds : qrcodes[q].current_session_id = resp.sid
    /\ Len(sessions) = 1

C37_AnyTransitionAccepted ==
    \A o \in OrderIds, st \in allowedStatuses :
        /\ PatchStatus(o, st).code = 200
        /\ PatchStatus(o, st).rows[o].status = st
        /\ \A x \in OrderIds \ {o} : PatchStatus(o, st).rows[x] = orders[x]

\* an order that has been READY or COMPLETED is PLACED again, while another
\* one is COMPLETED
C37_Witness ==
    /\ resp.op = "status"
    /\ resp.code = 200
    /\ \E o \in OrderIds : orders[o].status = "PLACED" /\ orders[o].actual_ready_time # Null
    /\ \E o \in OrderIds : orders[o].status = "COMPLETED"

\* C38: a table's pointer, when not empty, references a session created for
\* that table and that tenant.
C38_PointerToOwnSession ==
    \A q \in QrIds :
        LET sid == qrcodes[q].current_session_id IN
        sid # Null =>
            /\ sid \in SessionIds
            /\ sessions[sid].qr_code_id = q
            /\ sessions[sid].business_id = qrcodes[q].business_id

\* the tables of two tenants each point to a session of their own
C38_Witness ==
    \E q1, q2 \in QrIds :
        /\ q1 # q2
        /\ qrcodes[q1].current_session_id # Null
        /\ qrcodes[q2].current_session_id # Null
        /\ qrcodes[q1].current_session_id # qrcodes[q2].current_session_id
        /\ qrcodes[q1].business_id # qrcodes[q2].business_id

\* C39: closing a session that is already completed, no close of it being in
\* progress, changes nothing: the UPDATE of DiningSessions leaves every session
\* as it is, end_time included, and the UPDATE of QRCodes finds no pointer to
\* clear.
C39_SecondCloseChangesNothing ==
    \A s \in SessionIds, t \in Labels \cup {NoLabel} :
        (/\ sessions[s].status = "completed"
         /\ \A p \in Procs : ~(pc[p] = "close_clear" /\ req[p].sid = s)) =>
            /\ CloseStatus(sessions[s].business_id, s) = sessions
            /\ CloseClears(sessions[s].business_id, t, s) = {}

\* how often call x occurs among the calls c
Count(c, x) == Cardinality({i \in 1..Len(c) : c[i] = x})

\* C40: a POST /api/orders answered 201, 404 or 500 has taken one client,
\* begun one transaction, ended it by COMMIT (201) or ROLLBACK (404, 500) and
\* then released the client, once and as its last call; and a request whose
\* transaction is open comes to its answer, its client released.
C40_ClientReleasedOnce ==
    /\ [](resp.op = "order" /\ resp.code \in {201, 404, 500} =>
            LET c == resp.calls IN
            /\ Len(c) = 4
            /\ c[1] = "connect"
            /\ c[2] = "BEGIN"
            /\ c[3] = (IF resp.code = 201 THEN "COMMIT" ELSE "ROLLBACK")
            /\ c[4] = "release"
            /\ Count(c, "connect") = 1
            /\ Count(c, "release") = 1)
    /\ \A p \in Procs :
          (loc[p].tx = "open") ~>
              (loc[p].tx = "none" /\ resp.op = "order" /\ Count(resp.calls, "release") = 1)

\* an order whose INSERT was refused has rolled back and released its client
C40_Witness ==
    /\ resp.op = "order"
    /\ resp.code = 500
    /\ resp.message = "order"
    /\ Count(resp.calls, "ROLLBACK") = 1
    /\ resp.calls[Len(resp.calls)] = "release"

====
